---- MODULE Spec2Model ----
(***************************************************************************)
(* Daily Cash Flow Monitor (src/smart.py): the ledger kept in              *)
(* cash_flow.csv, the account list kept in accounts.csv, and the script    *)
(* that is run once per user interaction: it loads both files, recomputes  *)
(* serial numbers and running balances, applies at most one of the sidebar *)
(* operations, and saves.                                                  *)
(*                                                                         *)
(* Text is a sequence of code points, so that str.strip() and the string   *)
(* order used by sort_values are computed, not assumed.  Amounts are whole *)
(* numbers of the smallest currency unit.  Dates are day numbers.          *)
(***************************************************************************)
EXTENDS Integers, Sequences, FiniteSets

VARIABLES accountsFile, dataFile, accounts, df, msg

vars == <<accountsFile, dataFile, accounts, df, msg>>

\* ---------------------------------------------------------------- bounds
\* The program sets no limit to the ledger; here a row is added only while
\* the ledger has fewer rows than this: under Spec, where every kind of
\* description is typed in ...
MaxRows == 2
\* ... and under SpecDeep, where the ledger grows longer and only
\* descriptions that pass the test of the add form are typed in.
MaxRowsDeep == 3
\* ... and under SpecStored, where the account file is found on disk.
MaxRowsStored == 1

\* ------------------------------------------------------------ text values
Cash == <<67, 97, 115, 104>>
Bank == <<66, 97, 110, 107>>
PaddedBank == <<32>> \o Bank \o <<32>>
Pay == <<80, 97, 121>>
Blank == <<32>>
Empty == <<>>
\* "NA": one of the tokens read_csv takes for a missing value
NAToken == <<78, 65>>
\* the missing value (float nan) pandas puts where a cell is empty
NaN == <<-1>>
\* os.path.exists(...) is False
NoFile == [exists |-> FALSE, rows |-> <<>>]
\* a file holding the given rows
File(rows) == [exists |-> TRUE, rows |-> rows]

\* ----------------------------------------------------------- input sets
Dates == {1, 2}
Types == {"Credit", "Debit"}
AccountInputs == {Empty, Cash, Bank, PaddedBank}
Amounts == {1}
\* the descriptions typed in under Spec and under SpecDeep
DescInputs == {Blank, Pay, NAToken}
DescInputsDeep == {Pay}

\* ------------------------------------------------------------- str.strip
IsSpace(c) == c = 32

RECURSIVE lstrip(_)
lstrip(s) == IF s # <<>> /\ IsSpace(Head(s)) THEN lstrip(Tail(s)) ELSE s

RECURSIVE rstrip(_)
rstrip(s) ==
  IF s # <<>> /\ IsSpace(s[Len(s)]) THEN rstrip(SubSeq(s, 1, Len(s) - 1)) ELSE s

strip(s) == rstrip(lstrip(s))

\* the order of Python strings: by code point, a proper prefix first
RECURSIVE StrLess(_, _)
StrLess(a, b) ==
  IF b = <<>> THEN FALSE
  ELSE IF a = <<>> THEN TRUE
  ELSE IF Head(a) # Head(b) THEN Head(a) < Head(b)
  ELSE StrLess(Tail(a), Tail(b))

\* ------------------------------------------------------------ csv cells
\* to_csv writes a missing value as the empty cell
WriteCell(v) == IF v = NaN THEN Empty ELSE v

\* read_csv reads an empty cell and the NA tokens as the missing value
ReadCell(c) == IF c = Empty \/ c = NAToken THEN NaN ELSE c

\* --------------------------------------------------------- accounts.csv
\* pd.DataFrame({"Account": accounts}).to_csv(ACCOUNTS_PATH, index=False)
RECURSIVE WriteAccounts(_)
WriteAccounts(names) ==
  IF names = <<>> THEN <<>>
  ELSE <<WriteCell(Head(names))>> \o WriteAccounts(Tail(names))

\* pd.read_csv(ACCOUNTS_PATH)["Account"].dropna().tolist()
ReadAccounts(cells) ==
  LET present(c) == ReadCell(c) # NaN
  IN  SelectSeq(cells, present)

LoadAccounts ==
  IF accountsFile.exists THEN ReadAccounts(accountsFile.rows) ELSE <<Cash>>

Contains(names, name) == \E i \in 1..Len(names) : names[i] = name

\* -------------------------------------------------------- cash_flow.csv
\* A row of the frame.  ins is a history field, not a column of the
\* program: the rank of the row by time of insertion among the rows now in
\* the ledger (file order for a ledger found on disk).
Row(sno, date, desc, acct, amount, bal, ins) ==
  [SNo |-> sno, Date |-> date, Description |-> desc, Account |-> acct,
   Amount |-> amount, Balance |-> bal, ins |-> ins]

\* df.to_csv(DATA_PATH, index=False)
RECURSIVE to_csv(_)
to_csv(rows) ==
  IF rows = <<>> THEN <<>>
  ELSE <<[Head(rows) EXCEPT !.Description = WriteCell(@),
                            !.Account = WriteCell(@)]>> \o to_csv(Tail(rows))

\* pd.read_csv(DATA_PATH, parse_dates=["Date"])
RECURSIVE read_csv(_)
read_csv(cells) ==
  IF cells = <<>> THEN <<>>
  ELSE <<[Head(cells) EXCEPT !.Description = ReadCell(@),
                             !.Account = ReadCell(@)]>> \o read_csv(Tail(cells))

LoadData == IF dataFile.exists THEN read_csv(dataFile.rows) ELSE <<>>

\* ------------------------------------------------------------ recompute
\* KeyLess with the account left out of the key
KeyLessDateOnly(a, b) == a.Date < b.Date

\* the order of sort_values(["Account", "Date"])
KeyLess(a, b) ==
  \/ StrLess(a.Account, b.Account)
  \/ a.Account = b.Account /\ a.Date < b.Date

\* InsertSorted with x put in front of the rows whose key equals its own
RECURSIVE InsertSortedFront(_, _)
InsertSortedFront(sorted, x) ==
  IF sorted = <<>> THEN <<x>>
  ELSE IF ~KeyLess(sorted[Len(sorted)], x)
       THEN Append(InsertSortedFront(SubSeq(sorted, 1, Len(sorted) - 1), x),
                   sorted[Len(sorted)])
       ELSE Append(sorted, x)

\* x goes behind every row whose key is not greater than its own
RECURSIVE InsertSorted(_, _)
InsertSorted(sorted, x) ==
  IF sorted = <<>> THEN <<x>>
  ELSE IF KeyLess(x, sorted[Len(sorted)])
       THEN Append(InsertSorted(SubSeq(sorted, 1, Len(sorted) - 1), x),
                   sorted[Len(sorted)])
       ELSE Append(sorted, x)

\* df.sort_values(["Account", "Date"]): a stable sort
RECURSIVE sort_values(_)
sort_values(rows) ==
  IF rows = <<>> THEN <<>>
  ELSE InsertSorted(sort_values(SubSeq(rows, 1, Len(rows) - 1)), rows[Len(rows)])

\* ResetSNo with the serial numbers left as they were
ResetSNoStale(rows) == rows

\* reset_index(drop=True); df["S.No"] = df.index + 1
RECURSIVE ResetSNo(_)
ResetSNo(rows) ==
  IF rows = <<>> THEN <<>>
  ELSE Append(ResetSNo(SubSeq(rows, 1, Len(rows) - 1)),
              [rows[Len(rows)] EXCEPT !.SNo = Len(rows)])

\* df.groupby("Account")["Amount"].cumsum(): one running total per account,
\* carried down the frame
RECURSIVE CumsumFrom(_, _, _)
CumsumFrom(rows, totals, done) ==
  IF rows = <<>> THEN done
  ELSE LET r   == Head(rows)
           old == IF r.Account \in DOMAIN totals THEN totals[r.Account] ELSE 0
           new == old + r.Amount
       IN  CumsumFrom(Tail(rows),
                      [a \in DOMAIN totals \cup {r.Account} |->
                         IF a = r.Account THEN new ELSE totals[a]],
                      Append(done, [r EXCEPT !.Balance = new]))

\* GroupCumsum with one running total for the whole frame
RECURSIVE CumsumAll(_, _, _)
CumsumAll(rows, total, done) ==
  IF rows = <<>> THEN done
  ELSE CumsumAll(Tail(rows), total + Head(rows).Amount,
                 Append(done, [Head(rows) EXCEPT !.Balance = total + Head(rows).Amount]))

UngroupedCumsum(rows) == CumsumAll(rows, 0, <<>>)

GroupCumsum(rows) == CumsumFrom(rows, <<>>, <<>>)

\* sort, renumber, rebalance: what follows the load and every mutation
Recompute(rows) == GroupCumsum(ResetSNo(sort_values(rows)))

\* the frame the operations of one run act on
Prepared == Recompute(LoadData)

SNos(rows) == {rows[i].SNo : i \in 1..Len(rows)}

\* ------------------------------------------------------------- messages
Msg(text, snos) == [text |-> text, snos |-> snos]

NoMsg == Msg("", {})

\* ------------------------------------------------------- the first load
\* a ledger found on disk: rows out of order, serial numbers and balances
\* stale, one amount zero
SeedFile ==
  << Row(2, 2, Pay, Cash, 0, 0, 1), Row(2, 1, Pay, Bank, -1, 0, 2) >>

\* the page after its first run
Init ==
  /\ accountsFile = NoFile
  /\ dataFile \in {NoFile, File(SeedFile)}
  /\ accounts = LoadAccounts
  /\ df = Prepared
  /\ msg = NoMsg

\* ------------------------------------------------------------ one run
\* a run in which no button is pressed
View ==
  /\ accounts' = LoadAccounts
  /\ df' = Prepared
  /\ msg' = NoMsg
  /\ UNCHANGED <<accountsFile, dataFile>>

\* AddAccount with the name not looked for among the accounts
AddAccountUnchecked(new_acc) ==
  LET name == strip(new_acc)
      accs == LoadAccounts
  IN  /\ df' = Prepared
      /\ UNCHANGED dataFile
      /\ IF name = Empty
         THEN /\ msg' = Msg("Enter a valid account name.", {})
              /\ accounts' = accs
              /\ UNCHANGED accountsFile
         ELSE /\ accounts' = Append(accs, name)
              /\ accountsFile' = File(WriteAccounts(accounts'))
              /\ msg' = Msg("Added", {})

\* "Add Account" pressed with new_acc in the text box
AddAccount(new_acc) ==
  LET name == strip(new_acc)
      accs == LoadAccounts
  IN  /\ df' = Prepared
      /\ UNCHANGED dataFile
      /\ IF name = Empty
         THEN /\ msg' = Msg("Enter a valid account name.", {})
              /\ accounts' = accs
              /\ UNCHANGED accountsFile
         ELSE IF Contains(accs, name)
         THEN /\ msg' = Msg("already exists.", {})
              /\ accounts' = accs
              /\ UNCHANGED accountsFile
         ELSE /\ accounts' = Append(accs, name)
              /\ accountsFile' = File(WriteAccounts(accounts'))
              /\ msg' = Msg("Added", {})

\* signed = amt if ttype == "Credit" else -amt
Signed(ttype, amt) == IF ttype = "Credit" THEN amt ELSE 0 - amt

\* pd.concat([df, pd.DataFrame([new_row])], ignore_index=True); the
\* Balance cell of the new row is missing until Recompute fills it
Concat(rows, d, desc, acct, signed) ==
  Append(rows, Row(Len(rows) + 1, d, desc, acct, signed, 0, Len(rows) + 1))

\* AddTransaction with the description not looked at
AddTransactionUnchecked(d, desc, acct, ttype, amt) ==
  LET accs == LoadAccounts
      cur  == Prepared
  IN  /\ Contains(accs, acct)
      /\ accounts' = accs
      /\ UNCHANGED accountsFile
      /\ df' = Recompute(Concat(cur, d, desc, acct, Signed(ttype, amt)))
      /\ dataFile' = File(to_csv(df'))
      /\ msg' = Msg("Transaction added.", {})

\* the add_tx form submitted
AddTransaction(d, desc, acct, ttype, amt) ==
  LET accs == LoadAccounts
      cur  == Prepared
  IN  /\ Contains(accs, acct)
      /\ accounts' = accs
      /\ UNCHANGED accountsFile
      /\ IF strip(desc) = Empty
         THEN /\ msg' = Msg("Description required.", {})
              /\ df' = cur
              /\ UNCHANGED dataFile
         ELSE /\ df' = Recompute(Concat(cur, d, desc, acct, Signed(ttype, amt)))
              /\ dataFile' = File(to_csv(df'))
              /\ msg' = Msg("Transaction added.", {})

\* history only: insertion ranks closed up after rows have gone
RankAmong(rows, r) ==
  [r EXCEPT !.ins = Cardinality({j \in 1..Len(rows) : rows[j].ins <= r.ins})]

RECURSIVE RerankFrom(_, _)
RerankFrom(rows, all) ==
  IF rows = <<>> THEN <<>>
  ELSE <<RankAmong(all, Head(rows))>> \o RerankFrom(Tail(rows), all)

Rerank(rows) == RerankFrom(rows, rows)

\* DropRows with the selection kept and the rest dropped
DropRowsInverted(rows, to_delete) ==
  LET kept(r) == r.SNo \in to_delete
  IN  Rerank(SelectSeq(rows, kept))

\* df[~df["S.No"].isin(to_delete)]
DropRows(rows, to_delete) ==
  LET kept(r) == r.SNo \notin to_delete
  IN  Rerank(SelectSeq(rows, kept))

\* DeleteSelected with an empty selection deleted like any other
DeleteSelectedAlways(to_delete) ==
  LET cur == Prepared
  IN  /\ cur # <<>>
      /\ to_delete \subseteq SNos(cur)
      /\ accounts' = LoadAccounts
      /\ UNCHANGED accountsFile
      /\ df' = Recompute(DropRows(cur, to_delete))
      /\ dataFile' = File(to_csv(df'))
      /\ msg' = Msg("Deleted S.No", to_delete)

\* "Delete Selected" pressed with to_delete chosen in the multiselect
DeleteSelected(to_delete) ==
  LET cur == Prepared
  IN  /\ cur # <<>>
      /\ to_delete \subseteq SNos(cur)
      /\ accounts' = LoadAccounts
      /\ UNCHANGED accountsFile
      /\ IF to_delete # {}
         THEN /\ df' = Recompute(DropRows(cur, to_delete))
              /\ dataFile' = File(to_csv(df'))
              /\ msg' = Msg("Deleted S.No", to_delete)
         ELSE /\ df' = cur
              /\ UNCHANGED dataFile
              /\ msg' = Msg("No rows selected for deletion.", {})

\* SetRow with the row mask left out: every row is overwritten
RECURSIVE SetRowEvery(_, _, _, _, _, _)
SetRowEvery(rows, mod_sno, new_date, new_desc, new_acct, signed_amt) ==
  IF rows = <<>> THEN <<>>
  ELSE << [Head(rows) EXCEPT !.Date = new_date, !.Description = new_desc,
                             !.Account = new_acct, !.Amount = signed_amt] >>
       \o SetRowEvery(Tail(rows), mod_sno, new_date, new_desc, new_acct,
                      signed_amt)

\* df.loc[df["S.No"] == mod_sno, ["Date", "Description", "Account",
\* "Amount"]] = [...]
RECURSIVE SetRow(_, _, _, _, _, _)
SetRow(rows, mod_sno, new_date, new_desc, new_acct, signed_amt) ==
  IF rows = <<>> THEN <<>>
  ELSE << IF Head(rows).SNo = mod_sno
          THEN [Head(rows) EXCEPT !.Date = new_date, !.Description = new_desc,
                                  !.Account = new_acct, !.Amount = signed_amt]
          ELSE Head(rows) >>
       \o SetRow(Tail(rows), mod_sno, new_date, new_desc, new_acct, signed_amt)

\* df.loc[df["S.No"] == mod_sno].iloc[0]
RowOf(rows, sno) ==
  rows[CHOOSE i \in 1..Len(rows) :
         rows[i].SNo = sno /\ \A j \in 1..(i - 1) : rows[j].SNo # sno]

\* Modify with any serial number taken, in the ledger or not
ModifyAnyId(mod_sno, new_date, new_desc, new_acct, new_type, new_amt) ==
  LET accs == LoadAccounts
      cur  == Prepared
  IN  /\ cur # <<>>
      /\ Contains(accs, new_acct)
      /\ accounts' = accs
      /\ UNCHANGED accountsFile
      /\ df' = Recompute(SetRow(cur, mod_sno, new_date, new_desc, new_acct,
                                Signed(new_type, new_amt)))
      /\ dataFile' = File(to_csv(df'))
      /\ msg' = Msg("Updated S.No", {mod_sno})

\* the mod_tx form of row mod_sno submitted; the selectbox offers the S.No
\* of the frame, and the form is drawn only when the row's account is one
\* of the accounts (accounts.index(row.Account))
Modify(mod_sno, new_date, new_desc, new_acct, new_type, new_amt) ==
  LET accs == LoadAccounts
      cur  == Prepared
  IN  /\ cur # <<>>
      /\ mod_sno \in SNos(cur)
      /\ Contains(accs, RowOf(cur, mod_sno).Account)
      /\ Contains(accs, new_acct)
      /\ accounts' = accs
      /\ UNCHANGED accountsFile
      /\ df' = Recompute(SetRow(cur, mod_sno, new_date, new_desc, new_acct,
                                Signed(new_type, new_amt)))
      /\ dataFile' = File(to_csv(df'))
      /\ msg' = Msg("Updated S.No", {mod_sno})

\* the serial numbers a user may ask for: those of a full ledger and one
\* beyond
IdInputs(maxRows) == 1..(maxRows + 1)

\* one run of the script, the user's entries taken from the given sets
Run(maxRows, descs) ==
  \/ View
  \/ \E new_acc \in AccountInputs : AddAccount(new_acc)
  \/ \E d \in Dates, desc \in descs, acct \in {Cash, Bank},
        ttype \in Types, amt \in Amounts :
       /\ Len(Prepared) < maxRows
       /\ AddTransaction(d, desc, acct, ttype, amt)
  \/ \E to_delete \in SUBSET IdInputs(maxRows) : DeleteSelected(to_delete)
  \/ \E mod_sno \in IdInputs(maxRows), new_date \in Dates, new_desc \in descs,
        new_acct \in {Cash, Bank}, new_type \in Types, new_amt \in Amounts :
       Modify(mod_sno, new_date, new_desc, new_acct, new_type, new_amt)

Next == Run(MaxRows, DescInputs)

Spec == Init /\ [][Next]_vars

NextDeep == Run(MaxRowsDeep, DescInputsDeep)

SpecDeep == Init /\ [][NextDeep]_vars

\* the first run with an accounts.csv on disk that has the header and no
\* row, or with none
InitStored ==
  /\ accountsFile \in {NoFile, File(<<>>)}
  /\ dataFile = NoFile
  /\ accounts = LoadAccounts
  /\ df = Prepared
  /\ msg = NoMsg

NextStored == Run(MaxRowsStored, DescInputsDeep)

SpecStored == InitStored /\ [][NextStored]_vars

\* ------------------------------------------------------ a save that fails
\* what df.to_csv(DATA_PATH, index=False) may leave on disk when it raises
\* OSError: the file as it was (it could not be opened), or the rows written
\* before the error
FailedWrite(rows) ==
  {dataFile} \cup {File(SubSeq(to_csv(rows), 1, k)) : k \in 0..(Len(rows) - 1)}

\* the exception ends the run: the frame of the run has the change, the
\* page shows the exception
SaveFails(rows) ==
  /\ accounts' = LoadAccounts
  /\ UNCHANGED accountsFile
  /\ df' = rows
  /\ dataFile' \in FailedWrite(rows)
  /\ msg' = Msg("OSError", {})

\* the add_tx form submitted, to_csv of line 81 raising
AddTransactionSaveFails(d, desc, acct, ttype, amt) ==
  LET cur == Prepared
  IN  /\ Contains(LoadAccounts, acct)
      /\ strip(desc) # Empty
      /\ SaveFails(Recompute(Concat(cur, d, desc, acct, Signed(ttype, amt))))

\* "Delete Selected" pressed, to_csv of line 95 raising
DeleteSelectedSaveFails(to_delete) ==
  LET cur == Prepared
  IN  /\ cur # <<>>
      /\ to_delete \subseteq SNos(cur)
      /\ to_delete # {}
      /\ SaveFails(Recompute(DropRows(cur, to_delete)))

\* the mod_tx form submitted, to_csv of line 119 raising
ModifySaveFails(mod_sno, new_date, new_desc, new_acct, new_type, new_amt) ==
  LET accs == LoadAccounts
      cur  == Prepared
  IN  /\ cur # <<>>
      /\ mod_sno \in SNos(cur)
      /\ Contains(accs, RowOf(cur, mod_sno).Account)
      /\ Contains(accs, new_acct)
      /\ SaveFails(Recompute(SetRow(cur, mod_sno, new_date, new_desc, new_acct,
                                    Signed(new_type, new_amt))))

\* one run, the save of a change failing or not
NextSaveFails ==
  \/ Run(MaxRows, DescInputsDeep)
  \/ \E d \in Dates, acct \in {Cash, Bank}, ttype \in Types, amt \in Amounts :
       /\ Len(Prepared) < MaxRows
       /\ AddTransactionSaveFails(d, Pay, acct, ttype, amt)
  \/ \E to_delete \in SUBSET IdInputs(MaxRows) :
       DeleteSelectedSaveFails(to_delete)
  \/ \E mod_sno \in IdInputs(MaxRows), new_date \in Dates,
        new_acct \in {Cash, Bank}, new_type \in Types, new_amt \in Amounts :
       ModifySaveFails(mod_sno, new_date, Pay, new_acct, new_type, new_amt)

SpecSaveFails == Init /\ [][NextSaveFails]_vars

\* ----------------------------------------------------------- the report
\* the days the date range widget may give: the days of the ledger and one
\* day either side
RangeDates == 0..3

\* the accounts the multiselect offers: options=accounts
Offered(accs) == {accs[i] : i \in 1..Len(accs)}

\* mask with the last day of the range left out
maskOpenEnd(r, start_pie, end_pie, sel_accts) ==
  /\ r.Date >= start_pie
  /\ r.Date < end_pie
  /\ r.Account \in sel_accts

\* (Date >= start_pie) & (Date <= end_pie) & Account.isin(sel_accts)
mask(r, start_pie, end_pie, sel_accts) ==
  /\ r.Date >= start_pie
  /\ r.Date <= end_pie
  /\ r.Account \in sel_accts

\* df.loc[mask]
df_pie(rows, start_pie, end_pie, sel_accts) ==
  LET keep(r) == mask(r, start_pie, end_pie, sel_accts)
  IN  SelectSeq(rows, keep)

\* df_pie.loc[df_pie["Amount"] > 0, "Amount"].sum()
RECURSIVE total_credit(_)
total_credit(rows) ==
  IF rows = <<>> THEN 0
  ELSE (IF Head(rows).Amount > 0 THEN Head(rows).Amount ELSE 0)
       + total_credit(Tail(rows))

\* abs()
Abs(x) == IF x < 0 THEN 0 - x ELSE x

\* df_pie.loc[df_pie["Amount"] < 0, "Amount"].abs().sum()
RECURSIVE total_debit(_)
total_debit(rows) ==
  IF rows = <<>> THEN 0
  ELSE (IF Head(rows).Amount < 0 THEN Abs(Head(rows).Amount) ELSE 0)
       + total_debit(Tail(rows))

\* LastOf with the first balance of each account kept: groupby(...).first()
RECURSIVE FirstOf(_, _)
FirstOf(rows, got) ==
  IF rows = <<>> THEN got
  ELSE LET r == Head(rows)
       IN  FirstOf(Tail(rows),
                   [a \in DOMAIN got \cup {r.Account} |->
                      IF a \in DOMAIN got THEN got[a] ELSE r.Balance])

\* groupby("Account")["Balance"].last(), the frame gone through from the
\* top: a later row of an account takes the place of an earlier one
RECURSIVE LastOf(_, _)
LastOf(rows, got) ==
  IF rows = <<>> THEN got
  ELSE LET r == Head(rows)
       IN  LastOf(Tail(rows),
                  [a \in DOMAIN got \cup {r.Account} |->
                     IF a = r.Account THEN r.Balance ELSE got[a]])

\* bal_series = df_pie.groupby("Account")["Balance"].last()
bal_series(rows) == LastOf(rows, <<>>)

\* Series.sum()
RECURSIVE SeriesSum(_, _)
SeriesSum(series, keys) ==
  IF keys = {} THEN 0
  ELSE LET k == CHOOSE x \in keys : TRUE
       IN  series[k] + SeriesSum(series, keys \ {k})

\* total_balance taken over the filtered rows only: the sum of their
\* amounts
total_balanceOfRange(rows) == total_credit(rows) - total_debit(rows)

\* total_balance = bal_series.sum() if not bal_series.empty else 0.0
total_balance(rows) ==
  LET series == bal_series(rows)
  IN  IF DOMAIN series = {} THEN 0 ELSE SeriesSum(series, DOMAIN series)

\* ExportRow with the sign of a negative amount kept in Debit
ExportRowSignedDebit(r) ==
  [SNo |-> r.SNo, Date |-> r.Date, Description |-> r.Description,
   Account |-> r.Account, Amount |-> r.Amount,
   Credit |-> IF r.Amount > 0 THEN r.Amount ELSE 0,
   Debit |-> IF r.Amount < 0 THEN r.Amount ELSE 0,
   Balance |-> r.Balance]

\* one row of df_exp: Credit and Debit applied to Amount, then the eight
\* columns picked
ExportRow(r) ==
  [SNo |-> r.SNo, Date |-> r.Date, Description |-> r.Description,
   Account |-> r.Account, Amount |-> r.Amount,
   Credit |-> IF r.Amount > 0 THEN r.Amount ELSE 0,
   Debit |-> IF r.Amount < 0 THEN 0 - r.Amount ELSE 0,
   Balance |-> r.Balance]

\* df_exp = df.loc[mask].copy() with the columns Credit and Debit
RECURSIVE ExportRows(_)
ExportRows(rows) ==
  IF rows = <<>> THEN <<>>
  ELSE <<ExportRow(Head(rows))>> \o ExportRows(Tail(rows))

df_exp(rows, start_pie, end_pie, sel_accts) ==
  ExportRows(df_pie(rows, start_pie, end_pie, sel_accts))

\* ===================================================== properties checked
Fields(r) == <<r.Date, r.Description, r.Account, r.Amount>>

RECURSIVE FieldsOf(_)
FieldsOf(rows) ==
  IF rows = <<>> THEN <<>> ELSE <<Fields(Head(rows))>> \o FieldsOf(Tail(rows))

HasAccount(rows, a) == \E i \in 1..Len(rows) : rows[i].Account = a

SameKey(a, b) == a.Account = b.Account /\ a.Date = b.Date

\* the sum of the amounts of account a in rows 1..k
RECURSIVE AmountSum(_, _, _)
AmountSum(rows, a, k) ==
  IF k = 0 THEN 0
  ELSE AmountSum(rows, a, k - 1)
       + (IF rows[k].Account = a THEN rows[k].Amount ELSE 0)

\* the place in rows of the row whose insertion rank is x, one past the end
\* when there is none
PlaceOf(rows, x) ==
  IF \E p \in 1..Len(rows) : rows[p].ins = x
  THEN CHOOSE p \in 1..Len(rows) : rows[p].ins = x
  ELSE Len(rows) + 1

\* the row of rows whose insertion rank is x
RowWithIns(rows, x) == rows[PlaceOf(rows, x)]

IdsDense(rows) == \A i \in 1..Len(rows) : rows[i].SNo = i

BalanceIsRunningSum(rows) ==
  \A i \in 1..Len(rows) : rows[i].Balance = AmountSum(rows, rows[i].Account, i)

CanonicalOrder(rows) ==
  \A i \in 1..(Len(rows) - 1) :
    \/ StrLess(rows[i].Account, rows[i + 1].Account)
    \/ rows[i].Account = rows[i + 1].Account /\ rows[i].Date <= rows[i + 1].Date

\* C1: after the load and after every operation the serial numbers of the
\* ledger are exactly 1..N, in ledger order, no gap and no duplicate.
C1_IdsDense == IdsDense(df)

C1_Witness ==
  /\ msg = Msg("Deleted S.No", {1})
  /\ Len(df) = 2

\* C2: after the load and after every operation the balance of every row is
\* the sum of the amounts of the rows of its account up to and including
\* it, in ledger order; amounts may be negative or zero.
C2_BalanceIsRunningSum == BalanceIsRunningSum(df)

C2_Witness ==
  /\ Len(df) = 3
  /\ HasAccount(df, Cash) /\ HasAccount(df, Bank)
  /\ \E i \in 1..3 : df[i].Amount = 0
  /\ \E i \in 1..3 : df[i].Amount < 0 /\ df[i].Balance # df[i].Amount
  /\ msg.text = "Updated S.No"

\* C3: after every operation the ledger is in canonical order: of two
\* adjacent rows the first has the smaller account name, or the same
\* account and no later a date; also after an update of account or date.
C3_CanonicalOrder == CanonicalOrder(df)

C3_Witness ==
  /\ msg = Msg("Updated S.No", {3})
  /\ Len(df) = 3
  /\ df[1].Account = Bank /\ df[1].Date = 2
  /\ df[2].Account = Cash /\ df[2].Date = 1
  /\ df[3].Account = Cash /\ df[3].Date = 2

\* C4 as claimed: two rows with the same account and the same date are in
\* insertion order, the one inserted earlier first.
C4_TiesInInsertionOrder ==
  \A i, j \in 1..Len(df) :
    i < j /\ SameKey(df[i], df[j]) => df[i].ins < df[j].ins

\* C4 as amended: every operation leaves two rows that end with the same
\* account and the same date in the order they had in the ledger before
\* it, a row just inserted last.
C4_TiesKeepPriorOrder ==
  [][LET cur     == Prepared
         kept(r) == r.SNo \notin msg'.snos
         prior   == IF msg'.text = "Deleted S.No"
                    THEN Rerank(SelectSeq(cur, kept))
                    ELSE cur
     IN  \A i, j \in 1..Len(df') :
           i < j /\ SameKey(df'[i], df'[j])
             => PlaceOf(prior, df'[i].ins) < PlaceOf(prior, df'[j].ins)]_vars

\* an update has moved a row in front of a row inserted before it
C4_Witness ==
  /\ msg.text = "Updated S.No"
  /\ \E i, j \in 1..Len(df) :
       i < j /\ SameKey(df[i], df[j]) /\ df[i].ins > df[j].ins

\* C5: an insert whose description strips to nothing is refused with
\* "Description required." and leaves ledger and file as they were; a row
\* is added only with a description that does not strip to nothing.
C5_BlankInsertRejected ==
  [][/\ msg'.text = "Description required."
          => dataFile' = dataFile /\ df' = Prepared
     /\ msg'.text = "Transaction added."
          => /\ Len(df') = Len(Prepared) + 1
             /\ strip(RowWithIns(df', Len(df')).Description) # Empty]_vars

C5_Witness ==
  /\ msg.text = "Description required."
  /\ Len(df) = 1
  /\ dataFile = File(to_csv(df))

\* C6 as claimed: an update is applied only with a description that does
\* not strip to nothing.
C6_BlankUpdateRejected ==
  [][msg'.text = "Updated S.No"
       => \A k \in msg'.snos :
            strip(RowWithIns(df', RowOf(Prepared, k).ins).Description) # Empty]_vars

C8_DeleteRemovesSelected ==
  [][msg'.text = "Deleted S.No"
       => LET kept(r) == r.SNo \notin msg'.snos
          IN  FieldsOf(df') = FieldsOf(SelectSeq(Prepared, kept))]_vars

C8_Witness ==
  /\ msg = Msg("Deleted S.No", {2})
  /\ Len(df) = 2
  /\ Fields(df[1]) # Fields(df[2])

\* C9: a delete with nothing selected on a ledger that is not empty answers
\* "No rows selected for deletion." and leaves ledger and file as they
\* were; only a selection that is not empty is reported as deleted.
C9_EmptyDeleteIsNoOp ==
  [][/\ msg'.text = "No rows selected for deletion."
          => dataFile' = dataFile /\ df' = Prepared /\ Prepared # <<>>
     /\ msg'.text = "Deleted S.No" => msg'.snos # {}]_vars

C9_Witness ==
  /\ msg.text = "No rows selected for deletion."
  /\ Len(df) = 2

C11_FilterInRangeAndAccounts ==
  \A s \in RangeDates, e \in RangeDates, sel \in SUBSET Offered(accounts) :
    LET out == df_pie(df, s, e, sel)
    IN  /\ \A k \in 1..Len(out) : out[k] = df[out[k].SNo]
        /\ \A k \in 1..(Len(out) - 1) : out[k].SNo < out[k + 1].SNo
        /\ \A i \in 1..Len(df) :
             (\E k \in 1..Len(out) : out[k].SNo = i)
               <=> (df[i].Date \in s..e /\ df[i].Account \in sel)
        /\ s > e => out = <<>>
        /\ sel = {} => out = <<>>

C11_Witness ==
  /\ Len(df) = 3
  /\ Offered(accounts) = {Cash, Bank}
  /\ Len(df_pie(df, 2, 2, {Cash})) = 1
  /\ Len(df_pie(df, 1, 2, {Cash, Bank})) = 3
  /\ df_pie(df, 1, 1, {Bank}) # <<>>

\* the sum of the amounts of the rows at the places in P
RECURSIVE AmountsAt(_, _)
AmountsAt(rows, P) ==
  IF P = {} THEN 0
  ELSE LET i == CHOOSE x \in P : TRUE
       IN  rows[i].Amount + AmountsAt(rows, P \ {i})

\* the place in the ledger of the last row of account a among the filtered
\* rows
LastPlace(filtered, a) ==
  CHOOSE i \in SNos(filtered) :
    /\ \E k \in 1..Len(filtered) : filtered[k].SNo = i /\ filtered[k].Account = a
    /\ \A k \in 1..Len(filtered) : filtered[k].Account = a => filtered[k].SNo <= i

\* C12: over the filtered rows the total credit is the sum of the positive
\* amounts, the total debit the sum of the negative amounts with the sign
\* turned, and the total balance the sum, over the accounts with a filtered
\* row, of the running balance of the whole ledger at the account's last
\* filtered row; the total balance is 0 when no row is filtered.
C12_AggregateTotals ==
  \A s \in RangeDates, e \in RangeDates, sel \in SUBSET Offered(accounts) :
    LET rows   == df_pie(df, s, e, sel)
        accs   == {rows[k].Account : k \in 1..Len(rows)}
        ledger == [a \in accs |-> AmountSum(df, a, LastPlace(rows, a))]
    IN  /\ total_credit(rows)
             = AmountsAt(rows, {k \in 1..Len(rows) : rows[k].Amount > 0})
        /\ total_debit(rows)
             = 0 - AmountsAt(rows, {k \in 1..Len(rows) : rows[k].Amount < 0})
        /\ total_balance(rows) = SeriesSum(ledger, accs)
        /\ rows = <<>> => total_balance(rows) = 0

\* a credit and a debit of two accounts in the range, and an amount before
\* the range that the total balance takes in
C12_Witness ==
  /\ Len(df) = 3
  /\ Offered(accounts) = {Cash, Bank}
  /\ LET rows == df_pie(df, 2, 2, {Cash, Bank})
     IN  /\ Len(rows) = 2
         /\ rows[1].Account # rows[2].Account
         /\ total_credit(rows) = 1
         /\ total_debit(rows) = 1
         /\ total_balance(rows) # 0

\* C13: the export has one row for every filtered row, in the same order,
\* with serial number, date, description, account, amount and balance as in
\* the ledger; Credit and Debit are not negative, at most one of them is
\* not zero, and Credit - Debit is the amount.
C13_ExportSplitsAmount ==
  \A s \in RangeDates, e \in RangeDates, sel \in SUBSET Offered(accounts) :
    LET rows == df_pie(df, s, e, sel)
        out  == df_exp(df, s, e, sel)
    IN  /\ Len(out) = Len(rows)
        /\ \A k \in 1..Len(out) :
             /\ out[k].SNo = rows[k].SNo
             /\ <<out[k].Date, out[k].Description, out[k].Account,
                  out[k].Amount>> = Fields(df[out[k].SNo])
             /\ out[k].Balance = df[out[k].SNo].Balance
             /\ out[k].Credit >= 0
             /\ out[k].Debit >= 0
             /\ out[k].Credit = 0 \/ out[k].Debit = 0
             /\ out[k].Credit - out[k].Debit = out[k].Amount

\* a credit, a debit and an amount of zero exported together
C13_Witness ==
  /\ Len(df) = 3
  /\ Offered(accounts) = {Cash, Bank}
  /\ LET out == df_exp(df, 1, 2, {Cash, Bank})
     IN  /\ Len(out) = 3
         /\ \E k \in 1..3 : out[k].Credit = 1 /\ out[k].Debit = 0
         /\ \E k \in 1..3 : out[k].Credit = 0 /\ out[k].Debit = 1
         /\ \E k \in 1..3 : out[k].Amount = 0

NoTwoShare(names) ==
  \A i, j \in 1..Len(names) : names[i] = names[j] => i = j

\* C14: an account name that strips to nothing and a name that is already
\* in the list are refused, list and file left as they were; any other
\* name is appended, stripped, at the end of the list and the list is
\* saved; no two accounts of the list share a name.
C14_AddAccountChecked ==
  [][LET accs == LoadAccounts
     IN  /\ msg'.text \in {"Enter a valid account name.", "already exists."}
              => accountsFile' = accountsFile /\ accounts' = accs
         /\ msg'.text = "Added"
              => /\ Len(accounts') = Len(accs) + 1
                 /\ SubSeq(accounts', 1, Len(accs)) = accs
                 /\ LET name == accounts'[Len(accounts')]
                    IN  /\ name \in {strip(new_acc) : new_acc \in AccountInputs}
                        /\ name # Empty
                        /\ ~Contains(accs, name)
                 /\ accountsFile' = File(accounts')
         /\ NoTwoShare(accounts')]_vars

\* a name refused because an earlier add has put it in the list
C14_Witness ==
  /\ msg.text = "already exists."
  /\ accounts = <<Cash, Bank>>
  /\ accountsFile = File(<<Cash, Bank>>)

\* C15 as claimed: the account list is never empty, whether accounts.csv is
\* absent or holds no account row.
C15_AccountsNeverEmpty == accounts # <<>>

\* C16 as claimed: after a save that failed the ledger keeps the change: the
\* ledger the next request works on is the one the failed request ended
\* with.
C16_FailedSaveKeepsChange == msg.text = "OSError" => Prepared = df

\* place by insertion rank, serial number and balance of every row
RECURSIVE Marks(_)
Marks(rows) ==
  IF rows = <<>> THEN <<>>
  ELSE <<<<Head(rows).ins, Head(rows).SNo, Head(rows).Balance>>>>
       \o Marks(Tail(rows))

\* C17: a recompute of the ledger as it stands changes nothing, and the
\* recompute that follows the load of the saved ledger gives the same rows
\* in the same order with the same serial numbers and balances.
C17_RecomputeIdempotent ==
  /\ Recompute(df) = df
  /\ Marks(Prepared) = Marks(df)

\* a ledger just saved in which an update has put a row in front of a row
\* with its account and date that was inserted before it
C17_Witness ==
  /\ msg.text = "Updated S.No"
  /\ dataFile = File(to_csv(df))
  /\ Len(df) = 2
  /\ SameKey(df[1], df[2])
  /\ df[1].ins > df[2].ins

\* C18 as claimed: a request that added, deleted or updated ends with the
\* file holding the ledger, so that load and recompute give the ledger
\* back; any other request leaves the file as it was.
C18_SavedLedgerLoadsBack ==
  [][IF msg'.text \in {"Transaction added.", "Deleted S.No", "Updated S.No"}
     THEN /\ dataFile' = File(to_csv(df'))
          /\ Recompute(read_csv(dataFile'.rows)) = df'
     ELSE dataFile' = dataFile]_vars

\* the sum of the amounts of account a dated before day s
RECURSIVE AmountBefore(_, _, _)
AmountBefore(rows, a, s) ==
  IF rows = <<>> THEN 0
  ELSE (IF Head(rows).Account = a /\ Head(rows).Date < s
        THEN Head(rows).Amount ELSE 0)
       + AmountBefore(Tail(rows), a, s)

\* the sum of AmountBefore over the accounts in accs
RECURSIVE AmountBeforeAll(_, _, _)
AmountBeforeAll(rows, accs, s) ==
  IF accs = {} THEN 0
  ELSE LET a == CHOOSE x \in accs : TRUE
       IN  AmountBefore(rows, a, s) + AmountBeforeAll(rows, accs \ {a}, s)

\* the range holds the dates of all rows of the selected accounts
RangeHoldsAll(rows, s, e, sel) ==
  \A i \in 1..Len(rows) : rows[i].Account \in sel => rows[i].Date \in s..e

\* C19 as claimed: when the range holds the dates of all rows of the
\* selected accounts the total balance is total credit - total debit, and
\* for any range the total balance takes in, besides, the amounts dated
\* before the range of every selected account.
C19_BalanceTakesEarlierAmounts ==
  \A s \in RangeDates, e \in RangeDates, sel \in SUBSET Offered(accounts) :
    LET rows == df_pie(df, s, e, sel)
    IN  /\ RangeHoldsAll(df, s, e, sel)
             => total_balance(rows) = total_credit(rows) - total_debit(rows)
        /\ s <= e
             => total_balance(rows)
                  = total_credit(rows) - total_debit(rows)
                    + AmountBeforeAll(df, sel, s)

\* C19 as amended: when the range holds the dates of all rows of the
\* selected accounts the total balance is total credit - total debit, and
\* for any range it takes in, besides, the amounts dated before the range
\* of the selected accounts that have a row in the range, and of no other.
C19_BalanceTakesEarlierAmountsOfFiltered ==
  \A s \in RangeDates, e \in RangeDates, sel \in SUBSET Offered(accounts) :
    LET rows == df_pie(df, s, e, sel)
        accs == {rows[k].Account : k \in 1..Len(rows)}
    IN  /\ RangeHoldsAll(df, s, e, sel)
             => total_balance(rows) = total_credit(rows) - total_debit(rows)
        /\ total_balance(rows)
             = total_credit(rows) - total_debit(rows)
               + AmountBeforeAll(df, accs, s)

\* Bank has a row in the range and an amount before it, which the total
\* balance takes in; Cash has an amount before the range and no row in it
C19_Witness ==
  /\ Len(df) = 3
  /\ Offered(accounts) = {Cash, Bank}
  /\ df[1].Account = Bank /\ df[1].Date = 1 /\ df[1].Amount # 0
  /\ df[2].Account = Bank /\ df[2].Date = 2
  /\ df[3].Account = Cash /\ df[3].Date = 1 /\ df[3].Amount # 0
  /\ LET rows == df_pie(df, 2, 2, {Cash, Bank})
     IN  /\ Len(rows) = 1
         /\ total_balance(rows) = df[1].Amount + df[2].Amount
         /\ total_balance(rows) # total_credit(rows) - total_debit(rows)

\* C20: an insert that is applied adds one row; date, description, account
\* and amount of every row that was there stay; a row in front of the new
\* one keeps serial number and balance, a row behind it has its serial
\* number raised by one, and its balance raised by the new amount when it
\* is of the new row's account, kept otherwise.
C20_InsertFrame ==
  [][msg'.text = "Transaction added."
       => LET cur == Prepared
              n   == Len(cur)
              p   == PlaceOf(df', n + 1)
          IN  /\ Len(df') = n + 1
              /\ p \in 1..(n + 1)
              /\ df'[p].SNo = p
              /\ \A i \in 1..n :
                   LET new == df'[p]
                       now == RowWithIns(df', cur[i].ins)
                   IN  /\ Fields(now) = Fields(cur[i])
                       /\ now.SNo = IF i < p THEN cur[i].SNo ELSE cur[i].SNo + 1
                       /\ now.Balance
                            = IF i >= p /\ cur[i].Account = new.Account
                              THEN cur[i].Balance + new.Amount
                              ELSE cur[i].Balance]_vars

\* a row inserted between a row of another account and a row of its own
C20_Witness ==
  /\ msg.text = "Transaction added."
  /\ Len(df) = 3
  /\ df[2].ins = 3
  /\ df[1].Account # df[2].Account
  /\ df[3].Account = df[2].Account
  /\ df[3].Balance # df[3].Amount

====
